---- MODULE Spec2Model ----
(***************************************************************************)
(* Model of backend/full.py: the shared geospatial state (module globals),  *)
(* the frame loops started by GET /stream (generate_stream), the           *)
(* POST /set_base_location handler and the two GeoJSON query handlers.     *)
(*                                                                         *)
(* The handlers run on the threads of Flask's threaded development server  *)
(* and take no lock, so every access to a module global is a step of its   *)
(* own; code between two shared accesses touches only locals and is folded *)
(* into the step of the shared access that follows it.                     *)
(*                                                                         *)
(* Coordinates are fixed-point integers, one unit = 1e-7 degree.           *)
(***************************************************************************)
EXTENDS Integers, Sequences, FiniteSets, TLC

\* ------------------------------------------------------------------ bounds
\* History kept by "trail_points[-1500:]", scaled down.
TrailCap == 2
\* Frames decoded before the model stops following the loops: with one
\* stream consumer, and with two.
MaxFrames == 3
RaceFrames == 2
\* Frames in video.mp4.
NumFrames == 1
\* Decoded frame size (frame.shape[1], frame.shape[0]).
FrameW == 640
FrameH == 360
\* POST /set_base_location requests served.
MaxResets == 1
\* GET /trail/geojson and GET /landslide/geojson requests served (each).
MaxQueries == 1
\* Vertices of a contour handed to mask_to_polygons on its own.
MaxVerts == 4
\* Half-width of the blob centred in the frame, in pixels beyond the centre.
MaxRadius == 1

\* What the clients do in one run: the stream consumers that connect, the
\* frames their loops decode in total, the set_base_location requests and
\* the queries of each kind.
Workloads ==
    { [streams |-> {"s1", "s2"}, frames |-> RaceFrames, resets |-> 0, queries |-> 0],
      [streams |-> {"s1", "s2"}, frames |-> 2, resets |-> 1, queries |-> 0],
      [streams |-> {"s1"}, frames |-> MaxFrames, resets |-> 0, queries |-> 0],
      [streams |-> {"s1"}, frames |-> 2, resets |-> MaxResets, queries |-> 0],
      [streams |-> {"s1"}, frames |-> 3, resets |-> 0, queries |-> MaxQueries],
      [streams |-> {"s1"}, frames |-> 1, resets |-> 1, queries |-> 1] }

\* The stream consumers (one generate_stream generator each).
Loops == {"s1", "s2"}

\* ------------------------------------------------------------ program values
InitBaseLat == 282134000
InitBaseLon == 854293000
\* frame_idx * 0.0000002, in units of 1e-7 degree
GpsDrift == 2
\* cv2.contourArea(contour) < 500
MinArea == 500

\* ------------------------------------------------------------------ inputs
\* request.json of POST /set_base_location: a dict that may lack a key.
\* keys is the set of keys present; data["lat"] raises KeyError without it.
\* lat = 10, lon = 20 (degrees)
ResetLat == 10 * 10000000
ResetLon == 20 * 10000000
ResetBodies ==
    { [keys |-> ks, lat |-> ResetLat, lon |-> ResetLon] :
        ks \in SUBSET {"lat", "lon"} }

\* Instance masks of the trail model, as their sets of "on" pixels <<x, y>>.
TMaskZero == {}
TMaskA == {<<0, 0>>, <<1, 0>>}
TMaskB == {<<3, 1>>}

\* What trail_model(frame) does: raise, or return a result whose .masks is
\* None (hasMasks = FALSE) or a sequence of instance masks: no pixel on, one
\* instance, two instances.
TrailResults ==
    { [raises |-> TRUE,  hasMasks |-> FALSE, masks |-> <<>>],
      [raises |-> FALSE, hasMasks |-> FALSE, masks |-> <<>>],
      [raises |-> FALSE, hasMasks |-> TRUE,  masks |-> <<TMaskZero>>],
      [raises |-> FALSE, hasMasks |-> TRUE,  masks |-> <<TMaskA \cup TMaskB>>],
      [raises |-> FALSE, hasMasks |-> TRUE,  masks |-> <<TMaskA, TMaskB>>] }

\* Instance masks of the landslide model, as the set of connected blobs they
\* hold; a blob is the contour cv2.findContours traces around it and the
\* area cv2.contourArea gives it.
BlobRect ==
    [area |-> 600, pts |-> << <<10, 10>>, <<40, 10>>, <<40, 30>>, <<10, 30>> >>]
BlobNoise ==
    [area |-> 100, pts |-> << <<100, 100>>, <<110, 100>>, <<110, 110>>, <<100, 110>> >>]

LandslideResults ==
    { [raises |-> TRUE,  hasMasks |-> FALSE, masks |-> <<>>],
      [raises |-> FALSE, hasMasks |-> FALSE, masks |-> <<>>],
      [raises |-> FALSE, hasMasks |-> TRUE,  masks |-> << {} >>],
      [raises |-> FALSE, hasMasks |-> TRUE,  masks |-> << {BlobNoise} >>],
      [raises |-> FALSE, hasMasks |-> TRUE,  masks |-> << {BlobRect} >>] }

\* ------------------------------------------------------------ pure functions
\* frame_idx * 0.0000002 added to a base coordinate (simulate_gps, one axis)
simulate_gps(frame_idx, base) == base + frame_idx * GpsDrift

\* 0.2 m per pixel over 111320 m per degree is 1.797e-6 degree per pixel:
\* 9 units of 1e-7 degree per half pixel.
HalfPixelLat == 9
\* The same divided by cos(radians(lat)): 10.2 units at 28 degrees north,
\* 9.1 units at 10 degrees north (rounded; exact below 31 degrees).
HalfPixelLon(lat) == IF lat >= 190000000 THEN 10 ELSE 9

\* pixel_to_geo: (px - w / 2) is a true division, so the offset is kept in
\* half pixels, 2 * px - w.  Returns <<new_lat, new_lon>>.
pixel_to_geo(px, py, w, h, lat, lon) ==
    LET dx2 == 2 * px - w
        dy2 == 2 * py - h
    IN  << lat + dy2 * HalfPixelLat, lon + dx2 * HalfPixelLon(lat) >>

\* cv2.bitwise_or over the instance masks
RECURSIVE CombineMasks(_)
CombineMasks(masks) ==
    IF masks = <<>> THEN {}
    ELSE Head(masks) \cup CombineMasks(Tail(masks))

RECURSIVE SumCoord(_, _)
SumCoord(mask, i) ==
    IF mask = {} THEN 0
    ELSE LET px == CHOOSE q \in mask : TRUE
         IN  px[i] + SumCoord(mask \ {px}, i)

\* <<int(xs.mean()), int(ys.mean())>> over the "on" pixels of a non-empty mask
Centroid(mask) ==
    << SumCoord(mask, 1) \div Cardinality(mask),
       SumCoord(mask, 2) \div Cardinality(mask) >>

\* Lines 132-137: the centroid of the mask of a w x h frame through
\* pixel_to_geo, as [lon, lat]
CentroidToGeo(mask, w, h, lat, lon) ==
    LET c == Centroid(mask)
        g == pixel_to_geo(c[1], c[2], w, h, lat, lon)
    IN  << g[2], g[1] >>

\* The point [lon, lat] a frame appends for a combined mask
TrailPoint(mask, lat, lon) == CentroidToGeo(mask, FrameW, FrameH, lat, lon)

\* cv2.findContours(mask, RETR_EXTERNAL, ...): one contour per blob, in a
\* fixed discovery order.
RECURSIVE FindContours(_)
FindContours(blobs) ==
    IF blobs = {} THEN <<>>
    ELSE LET b == CHOOSE c \in blobs : \A d \in blobs : c.area >= d.area
         IN  <<b>> \o FindContours(blobs \ {b})

\* GeoRing without lines 64-65: the ring is left as the contour gives it
GeoRing_NoClose(contour, w, h, lat, lon) ==
    [ i \in 1..Len(contour.pts) |->
        LET g == pixel_to_geo(contour.pts[i][1], contour.pts[i][2], w, h, lat, lon)
        IN  << g[2], g[1] >> ]

\* Lines 57-65: the vertices through pixel_to_geo as [glon, glat], then the
\* first vertex appended when the ring is not closed yet.
GeoRing(contour, w, h, lat, lon) ==
    LET geo == [ i \in 1..Len(contour.pts) |->
                   LET g == pixel_to_geo(contour.pts[i][1], contour.pts[i][2],
                                         w, h, lat, lon)
                   IN  << g[2], g[1] >> ]
    IN  IF geo # <<>> /\ geo[1] # geo[Len(geo)]
        THEN Append(geo, geo[1])
        ELSE geo

\* The noise filter taking a contour of exactly the threshold area too
TooSmall_Inclusive(area) == area <= MinArea

\* Line 54: cv2.contourArea(contour) < 500
TooSmall(area) == area < MinArea

RECURSIVE mask_to_polygons(_, _, _, _, _)
mask_to_polygons(contours, w, h, lat, lon) ==
    IF contours = <<>> THEN <<>>
    ELSE LET c    == Head(contours)
             rest == mask_to_polygons(Tail(contours), w, h, lat, lon)
             ring == GeoRing(c, w, h, lat, lon)
         IN  IF TooSmall(c.area) THEN rest
             ELSE IF Len(ring) > 3 THEN <<ring>> \o rest
             ELSE rest

\* trail_points[-1500:]
LastN(s, n) == IF Len(s) <= n THEN s ELSE SubSeq(s, Len(s) - n + 1, Len(s))

\* A list object nothing refers to any more is freed: its contents are dropped
\* from the heap h, live being the objects still referred to.
Collect(h, live) == [ i \in DOMAIN h |-> IF i \in live THEN h[i] ELSE <<>> ]

\* ------------------------------------------- inputs of the functions
\* Contours handed to mask_to_polygons on its own: every vertex sequence of
\* 1 to MaxVerts vertices over three pixels (closed already or not), with an
\* area just below, at and just above the threshold.
ContourPixels == { <<10, 10>>, <<40, 10>>, <<40, 30>> }
VertexSeqs == UNION { [1..n -> ContourPixels] : n \in 1..MaxVerts }
Contours ==
    { [area |-> a, pts |-> v] :
        a \in {MinArea - 1, MinArea, MinArea + 1}, v \in VertexSeqs }
ContourLists ==
    {<<>>} \cup { <<c>> : c \in Contours } \cup { <<c, BlobRect>> : c \in Contours }

\* Reference positions handed to the functions: frame 1 from either base
RefPositions ==
    { << simulate_gps(1, InitBaseLat), simulate_gps(1, InitBaseLon) >>,
      << simulate_gps(1, ResetLat), simulate_gps(1, ResetLon) >> }

\* Frame sizes, even and odd
FrameSizes == { <<w, h>> : w \in {FrameW, FrameW + 1}, h \in {FrameH, FrameH + 1} }

\* A mask with one square blob centred in a w x h frame.  "area": centred on
\* the middle of the pixel area, whose middle columns are w/2 - 1 and w/2
\* for even w and (w - 1)/2 for odd w.  "pixel": centred on the pixel
\* (w div 2, h div 2).  r more pixels on each side.
CentredBlob(kind, w, h, r) ==
    IF kind = "area"
    THEN { <<x, y>> \in ((w \div 2) - r - 1 .. (w \div 2) + r)
                        \X ((h \div 2) - r - 1 .. (h \div 2) + r) :
             /\ 2 * x - (w - 1) <= 2 * r + 1 /\ (w - 1) - 2 * x <= 2 * r + 1
             /\ 2 * y - (h - 1) <= 2 * r + 1 /\ (h - 1) - 2 * y <= 2 * r + 1 }
    ELSE ((w \div 2) - r .. (w \div 2) + r) \X ((h \div 2) - r .. (h \div 2) + r)

\* ----------------------------------------------------------------- state
VARIABLES
    BASE_LAT, BASE_LON,     \* module globals, lines 20-21
    frame_index,            \* module global, line 25
    trail_points,           \* module global, line 23: the list object it names
    landslide_polygons,     \* module global, line 24: only ever rebound
    heap,                   \* contents of the list objects trail_points has named
    pc,                     \* generate_stream: position of each frame loop
    cap_pos,                \* cap: index of the next frame to decode
    tmp_idx,                \* frame_index += 1: the value loaded
    frame_idx,              \* simulate_gps: its argument
    gps_lat, gps_lon,       \* line 110
    has_trail,              \* line 118
    point,                  \* line 137: the [lon, lat] about to be appended
    list_ref,               \* line 137: the list object append is called on
    slice,                  \* line 138: trail_points[-1500:]
    rpc, rdata,             \* set_base_location: position, request.json
    tq_pc, tq_ref, tq_i,    \* trail_geojson: position, the list being encoded
    tq_out, trail_resp,     \* trail_geojson: coordinates encoded so far, response
    hq_pc, haz_resp,        \* landslide_geojson: position, response
    load,                   \* what the clients still do (frames, resets, queries)
                            \* and the frames decoded so far
    hist,                   \* history: points appended since the last reset
    tq_seen, hq_seen,       \* history: values the state took during a query
    quiet,                  \* history: no loop step since the reset began
    next_frame,             \* history: first frame decoded after a quiet reset
    fn_in, fn_out           \* a pure function applied on its own: input, result

loopVars == << pc, cap_pos, tmp_idx, frame_idx, gps_lat, gps_lon, has_trail,
               point, list_ref, slice >>
globalVars == << BASE_LAT, BASE_LON, frame_index, trail_points,
                 landslide_polygons, heap >>
resetVars == << rpc, rdata >>
queryVars == << tq_pc, tq_ref, tq_i, tq_out, trail_resp, hq_pc, haz_resp >>
histVars == << hist >>
fnVars == << fn_in, fn_out >>
vars == << globalVars, loopVars, resetVars, queryVars, load, histVars,
           tq_seen, hq_seen, quiet, next_frame, fnVars >>

NoPoint == << 0, 0 >>

\* The list trail_points names
Trail == heap[trail_points]

EmptyBody == [keys |-> {}, lat |-> ResetLat, lon |-> ResetLon]

\* The list objects still referred to besides the one trail_points names: by
\* a frame loop about to call append, by a query encoding its response.
Refs(pcs, refs, qpc, qref) ==
    { refs[p] : p \in { q \in Loops : pcs[q] = "trail_append" } }
        \cup (IF qpc = "encode" THEN {qref} ELSE {})

\* The state after the module has been imported, for the clients of workload w
StateInit(w) ==
    /\ BASE_LAT = InitBaseLat
    /\ BASE_LON = InitBaseLon
    /\ frame_index = 0
    /\ trail_points = 0
    /\ landslide_polygons = <<>>
    /\ heap = [ i \in 0..MaxResets |-> <<>> ]
    /\ pc = [ p \in Loops |-> IF p \in w.streams THEN "opening" ELSE "absent" ]
    /\ load = [frames |-> w.frames, resets |-> w.resets,
               tqueries |-> w.queries, hqueries |-> w.queries,
               decoded |-> 0]
    /\ cap_pos = [ p \in Loops |-> 0 ]
    /\ tmp_idx = [ p \in Loops |-> 0 ]
    /\ frame_idx = [ p \in Loops |-> 0 ]
    /\ gps_lat = [ p \in Loops |-> 0 ]
    /\ gps_lon = [ p \in Loops |-> 0 ]
    /\ has_trail = [ p \in Loops |-> FALSE ]
    /\ point = [ p \in Loops |-> NoPoint ]
    /\ list_ref = [ p \in Loops |-> 0 ]
    /\ slice = [ p \in Loops |-> <<>> ]
    /\ rpc = "idle"
    /\ rdata = EmptyBody
    /\ tq_pc = "idle" /\ tq_ref = 0 /\ tq_i = 0 /\ tq_out = <<>>
    /\ trail_resp = <<>>
    /\ hq_pc = "idle"
    /\ haz_resp = <<>>
    /\ hist = <<>>
    /\ tq_seen = {}
    /\ hq_seen = {}
    /\ quiet = FALSE
    /\ next_frame = "none"

\* No pure function is applied on its own
NoInput ==
    [op |-> "none", contours |-> <<>>, mask |-> {}, w |-> 0, h |-> 0,
     lat |-> 0, lon |-> 0]

Init ==
    /\ \E w \in Workloads : StateInit(w)
    /\ fn_in = NoInput
    /\ fn_out = <<>>

\* ------------------------------------------------------------ history
\* The values TrailHistory and HazardCollection take while a query is served
Observe ==
    /\ tq_seen' = IF tq_pc' = "encode"
                  THEN (IF tq_pc = "encode" THEN tq_seen ELSE {})
                           \cup {heap'[trail_points']}
                  ELSE {}
    /\ hq_seen' = IF hq_pc' = "build"
                  THEN (IF hq_pc = "build" THEN hq_seen ELSE {})
                           \cup {landslide_polygons'}
                  ELSE {}

\* quiet: a reset is being served and no frame loop has taken a step since it
\* began.  next_frame: "pending" after a reset served quietly, then the loop
\* that decoded the first frame after it, until that frame has its position.
LoopHistory(p) ==
    /\ quiet' = FALSE
    /\ next_frame' =
         IF next_frame = "pending" /\ pc[p] = "read" /\ pc'[p] = "inc_load" THEN p
         ELSE IF next_frame = p /\ pc[p] = "trail_detect" THEN "none"
         ELSE next_frame

ResetHistory ==
    /\ quiet' = IF rpc = "idle" THEN TRUE ELSE IF rpc' = "idle" THEN FALSE ELSE quiet
    /\ next_frame' = IF rpc = "clear_index" /\ quiet THEN "pending" ELSE next_frame

\* What a step of a frame loop, of set_base_location and of a query leaves
\* alone, and the history it keeps.
LoopRest(p) ==
    UNCHANGED << resetVars, queryVars, fnVars >> /\ LoopHistory(p) /\ Observe
ResetRest ==
    UNCHANGED << loopVars, queryVars, fnVars >> /\ ResetHistory /\ Observe
QueryRest ==
    /\ UNCHANGED << loopVars, resetVars, histVars, quiet, next_frame, fnVars >>
    /\ Observe

\* ------------------------------------------------------- generate_stream
\* Open going on into the loop whether or not the source has opened
Open_IgnoreFailure(p, opened) ==
    /\ pc[p] = "opening"
    /\ pc' = [pc EXCEPT ![p] = "read"]
    /\ UNCHANGED << globalVars, cap_pos, tmp_idx, frame_idx, gps_lat, gps_lon,
                    has_trail, point, list_ref, slice, load, histVars >>
    /\ LoopRest(p)

\* Lines 90-95: cv2.VideoCapture(video_path) opens the source or not
\* (opened); if not cap.isOpened(): return
Open(p, opened) ==
    /\ pc[p] = "opening"
    /\ pc' = [pc EXCEPT ![p] = IF opened THEN "read" ELSE "stopped"]
    /\ UNCHANGED << globalVars, cap_pos, tmp_idx, frame_idx, gps_lat, gps_lon,
                    has_trail, point, list_ref, slice, load, histVars >>
    /\ LoopRest(p)

\* Read without the seek of line 105: after a failed read the capture stays
\* where it is.
Read_NoSeek(p) ==
    /\ pc[p] = "read"
    /\ load.frames > 0
    /\ \E decoded \in BOOLEAN :
         IF cap_pos[p] < NumFrames /\ decoded
         THEN /\ cap_pos' = [cap_pos EXCEPT ![p] = @ + 1]
              /\ load' = [load EXCEPT !.frames = @ - 1, !.decoded = @ + 1]
              /\ pc' = [pc EXCEPT ![p] = "inc_load"]
         ELSE UNCHANGED << cap_pos, load, pc >>
    /\ UNCHANGED << globalVars, tmp_idx, frame_idx, gps_lat, gps_lon,
                    has_trail, point, list_ref, slice, histVars >>
    /\ LoopRest(p)

\* Lines 103-106: cap.read(); a failed read (end of stream or a frame that
\* does not decode) seeks to frame 0 and continues.
Read(p) ==
    /\ pc[p] = "read"
    /\ load.frames > 0
    /\ \E decoded \in BOOLEAN :
         IF cap_pos[p] < NumFrames /\ decoded
         THEN /\ cap_pos' = [cap_pos EXCEPT ![p] = @ + 1]
              /\ load' = [load EXCEPT !.frames = @ - 1, !.decoded = @ + 1]
              /\ pc' = [pc EXCEPT ![p] = "inc_load"]
         ELSE /\ cap_pos' = [cap_pos EXCEPT ![p] = 0]
              /\ UNCHANGED << load, pc >>
    /\ UNCHANGED << globalVars, tmp_idx, frame_idx, gps_lat, gps_lon,
                    has_trail, point, list_ref, slice, histVars >>
    /\ LoopRest(p)

\* Line 109, frame_index += 1: LOAD_GLOBAL
IncLoad(p) ==
    /\ pc[p] = "inc_load"
    /\ tmp_idx' = [tmp_idx EXCEPT ![p] = frame_index]
    /\ pc' = [pc EXCEPT ![p] = "inc_store"]
    /\ UNCHANGED << globalVars, cap_pos, frame_idx, gps_lat, gps_lon,
                    has_trail, point, list_ref, slice, load, histVars >>
    /\ LoopRest(p)

\* Line 109, frame_index += 1: STORE_GLOBAL
IncStore(p) ==
    /\ pc[p] = "inc_store"
    /\ frame_index' = tmp_idx[p] + 1
    /\ tmp_idx' = [tmp_idx EXCEPT ![p] = 0]
    /\ pc' = [pc EXCEPT ![p] = "gps_arg"]
    /\ UNCHANGED << BASE_LAT, BASE_LON, trail_points, landslide_polygons, heap,
                    cap_pos, frame_idx, gps_lat, gps_lon, has_trail, point,
                    list_ref, slice, load, histVars >>
    /\ LoopRest(p)

\* Line 110: the argument of simulate_gps(frame_index)
GpsArg(p) ==
    /\ pc[p] = "gps_arg"
    /\ frame_idx' = [frame_idx EXCEPT ![p] = frame_index]
    /\ pc' = [pc EXCEPT ![p] = "gps_lat"]
    /\ UNCHANGED << globalVars, cap_pos, tmp_idx, gps_lat, gps_lon, has_trail,
                    point, list_ref, slice, load, histVars >>
    /\ LoopRest(p)

\* Line 29: lat = BASE_LAT + frame_idx * 0.0000002
GpsLat(p) ==
    /\ pc[p] = "gps_lat"
    /\ gps_lat' = [gps_lat EXCEPT ![p] = simulate_gps(frame_idx[p], BASE_LAT)]
    /\ pc' = [pc EXCEPT ![p] = "gps_lon"]
    /\ UNCHANGED << globalVars, cap_pos, tmp_idx, frame_idx, gps_lon,
                    has_trail, point, list_ref, slice, load, histVars >>
    /\ LoopRest(p)

\* Line 30: lon = BASE_LON + frame_idx * 0.0000002
GpsLon(p) ==
    /\ pc[p] = "gps_lon"
    /\ gps_lon' = [gps_lon EXCEPT ![p] = simulate_gps(frame_idx[p], BASE_LON)]
    /\ frame_idx' = [frame_idx EXCEPT ![p] = 0]
    /\ pc' = [pc EXCEPT ![p] = "trail_detect"]
    /\ UNCHANGED << globalVars, cap_pos, tmp_idx, gps_lat, has_trail, point,
                    list_ref, slice, load, histVars >>
    /\ LoopRest(p)

\* TrailDetect without the np.any test of line 128: masks with no pixel on
\* count as a detection and the simulated position itself is appended.
TrailDetect_NoAnyTest(p, res) ==
    /\ pc[p] = "trail_detect"
    /\ LET mask == CombineMasks(res.masks) IN
         IF res.raises
         THEN /\ pc' = [pc EXCEPT ![p] = "raised"]
              /\ UNCHANGED << has_trail, point, list_ref >>
         ELSE IF res.hasMasks
         THEN /\ has_trail' = [has_trail EXCEPT ![p] = TRUE]
              /\ point' = [point EXCEPT ![p] =
                             IF mask = {} THEN << gps_lon[p], gps_lat[p] >>
                             ELSE TrailPoint(mask, gps_lat[p], gps_lon[p])]
              /\ list_ref' = [list_ref EXCEPT ![p] = trail_points]
              /\ pc' = [pc EXCEPT ![p] = "trail_append"]
         ELSE /\ has_trail' = [has_trail EXCEPT ![p] = FALSE]
              /\ pc' = [pc EXCEPT ![p] = "landslide_detect"]
              /\ UNCHANGED << point, list_ref >>
    /\ UNCHANGED << globalVars, cap_pos, tmp_idx, frame_idx, gps_lat, gps_lon,
                    slice, load, histVars >>
    /\ LoopRest(p)

\* Lines 114-137: trail_model(frame) (an exception leaves the generator),
\* the masks OR-ed together, np.any, the centroid through pixel_to_geo, and
\* the LOAD_GLOBAL of trail_points that append is then called on.
TrailDetect(p, res) ==
    /\ pc[p] = "trail_detect"
    /\ LET mask == CombineMasks(res.masks) IN
         IF res.raises
         THEN /\ pc' = [pc EXCEPT ![p] = "raised"]
              /\ UNCHANGED << has_trail, point, list_ref >>
         ELSE IF res.hasMasks /\ mask # {}
         THEN /\ has_trail' = [has_trail EXCEPT ![p] = TRUE]
              /\ point' = [point EXCEPT ![p] =
                             TrailPoint(mask, gps_lat[p], gps_lon[p])]
              /\ list_ref' = [list_ref EXCEPT ![p] = trail_points]
              /\ pc' = [pc EXCEPT ![p] = "trail_append"]
         ELSE /\ has_trail' = [has_trail EXCEPT ![p] = FALSE]
              /\ pc' = [pc EXCEPT ![p] = "landslide_detect"]
              /\ UNCHANGED << point, list_ref >>
    /\ UNCHANGED << globalVars, cap_pos, tmp_idx, frame_idx, gps_lat, gps_lon,
                    slice, load, histVars >>
    /\ LoopRest(p)

\* TrailAppend appending the point once per instance of a two-instance frame
TrailAppend_Twice(p) ==
    /\ pc[p] = "trail_append"
    /\ list_ref' = [list_ref EXCEPT ![p] = 0]
    /\ pc' = [pc EXCEPT ![p] = "trunc_slice"]
    /\ heap' = Collect([heap EXCEPT ![list_ref[p]] = Append(Append(@, point[p]), point[p])],
                       {trail_points} \cup Refs(pc', list_ref', tq_pc, tq_ref))
    /\ hist' = IF list_ref[p] = trail_points
               THEN Append(Append(hist, point[p]), point[p]) ELSE hist
    /\ UNCHANGED << BASE_LAT, BASE_LON, frame_index, trail_points,
                    landslide_polygons, cap_pos, tmp_idx, frame_idx, gps_lat,
                    gps_lon, has_trail, point, slice, load >>
    /\ LoopRest(p)

\* Line 137: trail_points.append([lon, lat]), on the list loaded before
TrailAppend(p) ==
    /\ pc[p] = "trail_append"
    /\ list_ref' = [list_ref EXCEPT ![p] = 0]
    /\ pc' = [pc EXCEPT ![p] = "trunc_slice"]
    /\ heap' = Collect([heap EXCEPT ![list_ref[p]] = Append(@, point[p])],
                       {trail_points} \cup Refs(pc', list_ref', tq_pc, tq_ref))
    /\ hist' = IF list_ref[p] = trail_points THEN Append(hist, point[p]) ELSE hist
    /\ UNCHANGED << BASE_LAT, BASE_LON, frame_index, trail_points,
                    landslide_polygons, cap_pos, tmp_idx, frame_idx, gps_lat,
                    gps_lon, has_trail, point, slice, load >>
    /\ LoopRest(p)

\* Line 138, right-hand side: trail_points[-1500:] builds a new list
TruncSlice(p) ==
    /\ pc[p] = "trunc_slice"
    /\ slice' = [slice EXCEPT ![p] = LastN(Trail, TrailCap)]
    /\ pc' = [pc EXCEPT ![p] = "trunc_store"]
    /\ UNCHANGED << globalVars, cap_pos, tmp_idx, frame_idx, gps_lat, gps_lon,
                    has_trail, point, list_ref, load, histVars >>
    /\ LoopRest(p)

\* Line 138, trail_points[:] = ...: the list trail_points names now gets the
\* contents of the slice, in place
TruncStore(p) ==
    /\ pc[p] = "trunc_store"
    /\ heap' = [heap EXCEPT ![trail_points] = slice[p]]
    /\ slice' = [slice EXCEPT ![p] = <<>>]
    /\ point' = [point EXCEPT ![p] = NoPoint]
    /\ pc' = [pc EXCEPT ![p] = "landslide_detect"]
    /\ UNCHANGED << BASE_LAT, BASE_LON, frame_index, trail_points,
                    landslide_polygons, cap_pos, tmp_idx, frame_idx, gps_lat,
                    gps_lon, has_trail, list_ref, load, histVars >>
    /\ LoopRest(p)

\* Accumulate and cap instead of replace: the polygons of the frame are
\* appended and the 50 most recent kept.
LandslideStore_Accumulate(cur, polygons) == LastN(cur \o polygons, 50)

\* Line 159: landslide_polygons = current_polygons
LandslideStore(cur, polygons) == polygons

\* Lines 141-159: landslide_model(frame) (an exception leaves the generator),
\* the masks OR-ed together, np.any, mask_to_polygons and the rebinding of
\* landslide_polygons.
LandslideDetect(p, res) ==
    /\ pc[p] = "landslide_detect"
    /\ LET mask == CombineMasks(res.masks) IN
         IF res.raises
         THEN /\ pc' = [pc EXCEPT ![p] = "raised"]
              /\ UNCHANGED landslide_polygons
         ELSE IF res.hasMasks /\ mask # {}
         THEN /\ landslide_polygons' =
                   LandslideStore(landslide_polygons,
                       mask_to_polygons(FindContours(mask), FrameW, FrameH,
                                        gps_lat[p], gps_lon[p]))
              /\ pc' = [pc EXCEPT ![p] = "emit"]
         ELSE /\ pc' = [pc EXCEPT ![p] = "emit"]
              /\ UNCHANGED landslide_polygons
    /\ UNCHANGED << BASE_LAT, BASE_LON, frame_index, trail_points, heap,
                    cap_pos, tmp_idx, frame_idx, gps_lat, gps_lon, has_trail,
                    point, list_ref, slice, load, histVars >>
    /\ LoopRest(p)

\* Lines 161-189: overlay, time.sleep(delay), yield buffer_frame(frame)
Emit(p) ==
    /\ pc[p] = "emit"
    /\ pc' = [pc EXCEPT ![p] = "read"]
    /\ gps_lat' = [gps_lat EXCEPT ![p] = 0]
    /\ gps_lon' = [gps_lon EXCEPT ![p] = 0]
    /\ has_trail' = [has_trail EXCEPT ![p] = FALSE]
    /\ UNCHANGED << globalVars, cap_pos, tmp_idx, frame_idx, point, list_ref,
                    slice, load, histVars >>
    /\ LoopRest(p)

\* ----------------------------------------------------- set_base_location
\* Line 203: data = request.json
ResetRequest(body) ==
    /\ rpc = "idle"
    /\ load.resets > 0
    /\ load' = [load EXCEPT !.resets = @ - 1]
    /\ rdata' = body
    /\ rpc' = "set_lat"
    /\ UNCHANGED << globalVars, histVars >>
    /\ ResetRest

\* Line 204: BASE_LAT = data["lat"]; KeyError ends the request
ResetSetLat ==
    /\ rpc = "set_lat"
    /\ IF "lat" \in rdata.keys
       THEN BASE_LAT' = rdata.lat /\ rpc' = "set_lon" /\ UNCHANGED rdata
       ELSE UNCHANGED BASE_LAT /\ rpc' = "idle" /\ rdata' = EmptyBody
    /\ UNCHANGED << BASE_LON, frame_index, trail_points, landslide_polygons,
                    heap, load, histVars >>
    /\ ResetRest

\* Line 205: BASE_LON = data["lon"]; KeyError ends the request
ResetSetLon ==
    /\ rpc = "set_lon"
    /\ IF "lon" \in rdata.keys
       THEN BASE_LON' = rdata.lon /\ rpc' = "clear_trail" /\ UNCHANGED rdata
       ELSE UNCHANGED BASE_LON /\ rpc' = "idle" /\ rdata' = EmptyBody
    /\ UNCHANGED << BASE_LAT, frame_index, trail_points, landslide_polygons,
                    heap, load, histVars >>
    /\ ResetRest

\* Line 207: trail_points = [] binds the name to a new list object
ResetClearTrail ==
    /\ rpc = "clear_trail"
    /\ trail_points' = trail_points + 1
    /\ heap' = Collect(heap, Refs(pc, list_ref, tq_pc, tq_ref))
    /\ hist' = <<>>
    /\ rpc' = "clear_polygons"
    /\ UNCHANGED << BASE_LAT, BASE_LON, frame_index, landslide_polygons,
                    rdata, load >>
    /\ ResetRest

\* Line 208: landslide_polygons = []
ResetClearPolygons ==
    /\ rpc = "clear_polygons"
    /\ landslide_polygons' = <<>>
    /\ rpc' = "clear_index"
    /\ UNCHANGED << BASE_LAT, BASE_LON, frame_index, trail_points, heap,
                    rdata, load, histVars >>
    /\ ResetRest

\* Lines 209-215: frame_index = 0 and the response
ResetClearIndex ==
    /\ rpc = "clear_index"
    /\ frame_index' = 0
    /\ rpc' = "idle"
    /\ rdata' = EmptyBody
    /\ UNCHANGED << BASE_LAT, BASE_LON, trail_points, landslide_polygons, heap,
                    load, histVars >>
    /\ ResetRest

\* ------------------------------------------------------------ the queries
\* Line 233: "coordinates": trail_points hands the list object itself to
\* jsonify
TrailQueryLoad ==
    /\ tq_pc = "idle"
    /\ load.tqueries > 0
    /\ load' = [load EXCEPT !.tqueries = @ - 1]
    /\ tq_ref' = trail_points
    /\ tq_i' = 0
    /\ tq_out' = <<>>
    /\ tq_pc' = "encode"
    /\ UNCHANGED << globalVars, trail_resp, hq_pc, haz_resp >>
    /\ QueryRest

\* Lines 229-235: jsonify encodes the list it was handed, one element after
\* the other (the app runs with debug=True, so the encoder is the one written
\* in Python); the response is complete when the index reaches the length.
TrailQueryEncode ==
    /\ tq_pc = "encode"
    /\ IF tq_i < Len(heap[tq_ref])
       THEN /\ tq_out' = Append(tq_out, heap[tq_ref][tq_i + 1])
            /\ tq_i' = tq_i + 1
            /\ UNCHANGED << tq_pc, tq_ref, trail_resp, heap >>
       ELSE /\ trail_resp' = tq_out
            /\ tq_pc' = "idle"
            /\ tq_out' = <<>>
            /\ tq_i' = 0
            /\ tq_ref' = 0
            /\ heap' = Collect(heap, {trail_points} \cup Refs(pc, list_ref, "idle", 0))
    /\ UNCHANGED << BASE_LAT, BASE_LON, frame_index, trail_points,
                    landslide_polygons, hq_pc, haz_resp, load >>
    /\ QueryRest

\* Lines 239-240: if not landslide_polygons: an empty FeatureCollection
HazardQueryCheck ==
    /\ hq_pc = "idle"
    /\ load.hqueries > 0
    /\ load' = [load EXCEPT !.hqueries = @ - 1]
    /\ IF landslide_polygons = <<>>
       THEN haz_resp' = <<>> /\ UNCHANGED hq_pc
       ELSE hq_pc' = "build" /\ UNCHANGED haz_resp
    /\ UNCHANGED << globalVars, tq_pc, tq_ref, tq_i, tq_out, trail_resp >>
    /\ QueryRest

\* Lines 242-256: for poly in landslide_polygons: the list named now, which
\* no one modifies in place
HazardQueryBuild ==
    /\ hq_pc = "build"
    /\ haz_resp' = landslide_polygons
    /\ hq_pc' = "idle"
    /\ UNCHANGED << globalVars, tq_pc, tq_ref, tq_i, tq_out, trail_resp, load >>
    /\ QueryRest

\* ------------------------------------------------------------ next state
Next ==
    \/ \E p \in Loops :
         \/ \E opened \in BOOLEAN : Open(p, opened)
         \/ Read(p) \/ IncLoad(p) \/ IncStore(p)
         \/ GpsArg(p) \/ GpsLat(p) \/ GpsLon(p)
         \/ \E res \in TrailResults : TrailDetect(p, res)
         \/ TrailAppend(p) \/ TruncSlice(p) \/ TruncStore(p)
         \/ \E res \in LandslideResults : LandslideDetect(p, res)
         \/ Emit(p)
    \/ \E body \in ResetBodies : ResetRequest(body)
    \/ ResetSetLat \/ ResetSetLon
    \/ ResetClearTrail \/ ResetClearPolygons \/ ResetClearIndex
    \/ TrailQueryLoad \/ TrailQueryEncode
    \/ HazardQueryCheck \/ HazardQueryBuild

Spec == Init /\ [][Next]_vars

\* ------------------------------------------------- normal operation, fair
\* The frame loops alone, with inference that returns: no reset, no query,
\* no exception.  Each loop runs on a thread of its own that the interpreter
\* keeps scheduling while its consumer reads the stream.
LiveInit ==
    /\ \E w \in Workloads : w.resets = 0 /\ w.queries = 0 /\ StateInit(w)
    /\ fn_in = NoInput
    /\ fn_out = <<>>

LoopStep(p) ==
    \/ \E opened \in BOOLEAN : Open(p, opened)
    \/ Read(p) \/ IncLoad(p) \/ IncStore(p)
    \/ GpsArg(p) \/ GpsLat(p) \/ GpsLon(p)
    \/ \E res \in TrailResults : ~res.raises /\ TrailDetect(p, res)
    \/ TrailAppend(p) \/ TruncSlice(p) \/ TruncStore(p)
    \/ \E res \in LandslideResults : ~res.raises /\ LandslideDetect(p, res)
    \/ Emit(p)

LiveNext == \E p \in Loops : LoopStep(p)

LiveSpec ==
    LiveInit /\ [][LiveNext]_vars /\ \A p \in Loops : WF_vars(LoopStep(p))

\* --------------------------------------------- the functions on their own
\* No client: the module has been imported, nothing else runs.
NoClients == [streams |-> {}, frames |-> 0, resets |-> 0, queries |-> 0]

\* The inputs: a list of contours and a reference position for
\* mask_to_polygons, or a centred blob, a frame size and a reference
\* position for the trail point of lines 132-137.
FnInit ==
    /\ StateInit(NoClients)
    /\ fn_out = <<>>
    /\ \/ \E cs \in ContourLists, ref \in RefPositions :
            fn_in = [op |-> "mask_to_polygons", contours |-> cs, mask |-> {},
                     w |-> FrameW, h |-> FrameH, lat |-> ref[1], lon |-> ref[2]]
       \/ \E kind \in {"area", "pixel"}, size \in FrameSizes, r \in 0..MaxRadius,
             ref \in RefPositions :
            fn_in = [op |-> "trail_point", contours |-> <<>>,
                     mask |-> CentredBlob(kind, size[1], size[2], r),
                     w |-> size[1], h |-> size[2], lat |-> ref[1], lon |-> ref[2]]

FnRest ==
    UNCHANGED << BASE_LAT, BASE_LON, frame_index, trail_points, heap, loopVars,
                 resetVars, queryVars, load, histVars, tq_seen, hq_seen, quiet,
                 next_frame >>

\* Lines 158-159: current_polygons = mask_to_polygons(...) and
\* landslide_polygons = current_polygons
ApplyMaskToPolygons ==
    /\ fn_in.op = "mask_to_polygons"
    /\ fn_out' = mask_to_polygons(fn_in.contours, fn_in.w, fn_in.h,
                                  fn_in.lat, fn_in.lon)
    /\ landslide_polygons' = LandslideStore(landslide_polygons, fn_out')
    /\ fn_in' = [fn_in EXCEPT !.op = "polygons"]
    /\ FnRest

\* Lines 132-136: the [lon, lat] of the centroid of the mask
ApplyTrailPoint ==
    /\ fn_in.op = "trail_point"
    /\ fn_out' = CentroidToGeo(fn_in.mask, fn_in.w, fn_in.h, fn_in.lat, fn_in.lon)
    /\ fn_in' = [fn_in EXCEPT !.op = "point"]
    /\ UNCHANGED landslide_polygons
    /\ FnRest

FnNext == ApplyMaskToPolygons \/ ApplyTrailPoint

FnSpec == FnInit /\ [][FnNext]_vars

\* ------------------------------------------------------------ properties
\* A coordinate pair [lon, lat] lies within a tenth of a degree of the base
\* (lat, lon): it was computed from that base, not from one degrees away.
ComputedFrom(pt, lat, lon) ==
    /\ pt[2] - lat < 1000000 /\ lat - pt[2] < 1000000
    /\ pt[1] - lon < 1000000 /\ lon - pt[1] < 1000000

\* No frame loop stands between the append of line 137 and the end of the
\* truncation of line 138.
NoAppendInProgress == \A p \in Loops : pc[p] \notin {"trunc_slice", "trunc_store"}

\* C1: whenever no append is in progress, TrailHistory holds at most TrailCap
\* points, and they are exactly the most recently appended ones since the
\* last reset, in the order they were appended.
C1_TrailBounded ==
    NoAppendInProgress =>
        /\ Len(Trail) <= TrailCap
        /\ Trail = LastN(hist, TrailCap)

\* A state in the middle of a reset whose trail and hazards mix data from
\* before and after it: the trail already emptied and hazard polygons still
\* there, or the new base in place and trail points computed from another
\* base.  (The frame counter is left out: no query response carries it.)
ResetPartial ==
    \/ rpc = "clear_polygons" /\ Trail = <<>> /\ landslide_polygons # <<>>
    \/ /\ rpc = "clear_trail"
       /\ \E i \in DOMAIN Trail : ~ComputedFrom(Trail[i], BASE_LAT, BASE_LON)

\* C2: no step of a trail or hazard query is served from a state that a reset
\* has only partly changed.
C2_ResetAtomicForReaders ==
    [][ (TrailQueryLoad \/ TrailQueryEncode \/ HazardQueryCheck \/ HazardQueryBuild)
            => ~ResetPartial ]_vars

\* A reset with both coordinates has been served to its end.
ResetServed == rpc = "idle" /\ BASE_LAT = ResetLat /\ BASE_LON = ResetLon

\* C3: once a reset has been served, TrailHistory and HazardCollection hold
\* only points and polygons computed from the new base position.
C3_NoStaleResultAfterReset ==
    ResetServed =>
        /\ \A i \in DOMAIN Trail : ComputedFrom(Trail[i], BASE_LAT, BASE_LON)
        /\ \A i \in DOMAIN landslide_polygons :
             \A j \in DOMAIN landslide_polygons[i] :
               ComputedFrom(landslide_polygons[i][j], BASE_LAT, BASE_LON)

\* C4: a reset with both coordinates that no frame-loop step interleaves with
\* leaves the trail and the hazards empty, the frame counter 0 and the base at
\* (lat, lon); and the first frame decoded after it gets its simulated
\* position from the new base and frame index 1.
C4_ResetThenNextFrame ==
    [][ /\ (ResetClearIndex /\ quiet) =>
              /\ heap'[trail_points'] = <<>>
              /\ landslide_polygons' = <<>>
              /\ frame_index' = 0
              /\ BASE_LAT' = rdata.lat /\ BASE_LON' = rdata.lon
        /\ \A p \in Loops : (GpsLon(p) /\ next_frame = p) =>
              /\ gps_lat'[p] = simulate_gps(1, ResetLat)
              /\ gps_lon'[p] = simulate_gps(1, ResetLon) ]_vars

\* C5: a reset request that lacks a coordinate leaves the base position, the
\* trail, the hazards and the frame counter as they were.
C5_InvalidResetChangesNothing ==
    [][ ((ResetSetLat \/ ResetSetLon) /\ rdata.keys # {"lat", "lon"})
            => UNCHANGED globalVars ]_vars

\* No request to set_base_location has had an effect so far.
NoResetYet == rpc = "idle" /\ BASE_LAT = InitBaseLat

\* C6: with no reset, once every increment begun has been stored, the frame
\* counter equals the number of frames that have reached line 109; and it
\* only ever decreases by a reset setting it to 0.
C6_FrameCounterExact ==
    [][ /\ (NoResetYet' /\ \A p \in Loops : pc'[p] # "inc_store")
              => frame_index' =
                   load'.decoded - Cardinality({ p \in Loops : pc'[p] = "inc_load" })
        /\ frame_index' < frame_index => (ResetClearIndex /\ frame_index' = 0) ]_vars

\* C7: the coordinates a trail query returns are the value TrailHistory had
\* at one instant while the query was served, and the polygons a hazard query
\* returns are the value HazardCollection had at one such instant.
C7_QueriesReturnSnapshot ==
    [][ /\ (TrailQueryEncode /\ tq_pc' = "idle") => trail_resp' \in tq_seen
        /\ ((HazardQueryCheck /\ hq_pc' = "idle") \/ HazardQueryBuild)
              => haz_resp' \in hq_seen \cup {landslide_polygons} ]_vars

\* The polygons mask_to_polygons gives for what the landslide model returned
FramePolygons(p, res) ==
    IF res.hasMasks
    THEN mask_to_polygons(FindContours(CombineMasks(res.masks)), FrameW, FrameH,
                          gps_lat[p], gps_lon[p])
    ELSE <<>>

\* C8: after every processed frame HazardCollection is exactly the list of
\* polygons of that frame, empty when the frame has no hazard detection.
C8_HazardsReplacedEachFrame ==
    [][ \A p \in Loops : \A res \in LandslideResults :
          (LandslideDetect(p, res) /\ ~res.raises)
              => landslide_polygons' = FramePolygons(p, res) ]_vars

\* C8 as amended: a frame whose landslide detection has at least one pixel on
\* leaves HazardCollection equal to exactly the polygons of that frame, all
\* earlier ones discarded; a frame with no landslide mask, or with no pixel
\* on, leaves HazardCollection as it was.
C8_HazardsReplacedOnDetection ==
    [][ \A p \in Loops : \A res \in LandslideResults :
          (LandslideDetect(p, res) /\ ~res.raises) =>
              IF res.hasMasks /\ CombineMasks(res.masks) # {}
              THEN landslide_polygons' = FramePolygons(p, res)
              ELSE UNCHANGED landslide_polygons ]_vars

\* A frame has been through its landslide detection and HazardCollection
\* still holds a polygon of an earlier frame.
C8_Witness ==
    \E p \in Loops :
        /\ pc[p] = "emit"
        /\ cap_pos[p] > 0
        /\ landslide_polygons # <<>>
        /\ landslide_polygons #
             mask_to_polygons(<<BlobRect>>, FrameW, FrameH, gps_lat[p], gps_lon[p])
        /\ \A q \in Loops \ {p} : pc[q] \in {"absent", "stopped"}

\* The trail detection of a frame yields no mask, or masks with no pixel on.
EmptyDetection(res) ==
    ~res.raises /\ (~res.hasMasks \/ CombineMasks(res.masks) = {})

\* C9: a frame whose trail detection is empty goes straight on to the
\* landslide detection with no point produced, and neither that step nor the
\* rest of the frame changes TrailHistory; the loop keeps running.
C9_EmptyDetectionKeepsTrail ==
    [][ \A p \in Loops :
          /\ \A res \in TrailResults :
               (TrailDetect(p, res) /\ EmptyDetection(res)) =>
                   /\ pc'[p] = "landslide_detect"
                   /\ ~has_trail'[p]
                   /\ point'[p] = NoPoint
                   /\ UNCHANGED << trail_points, heap, hist >>
          /\ ((\E res \in LandslideResults : LandslideDetect(p, res)) \/ Emit(p))
               => UNCHANGED << trail_points, heap, hist >> ]_vars

\* A frame with an empty trail detection stands before its landslide
\* detection, with the points of earlier frames still in TrailHistory.
C9_Witness ==
    \E p \in Loops :
        /\ pc[p] = "landslide_detect"
        /\ ~has_trail[p]
        /\ Trail # <<>>
        /\ Trail = hist

\* The positions of a frame loop whose source has opened
Running ==
    { "read", "inc_load", "inc_store", "gps_arg", "gps_lat", "gps_lon",
      "trail_detect", "trail_append", "trunc_slice", "trunc_store",
      "landslide_detect", "emit" }

\* C10: a frame loop whose source has opened never leaves RUNNING: a frame
\* that fails is skipped and the loop goes on.
C10_FrameFailureKeepsLoop ==
    [][ \A p \in Loops : pc[p] \in Running => pc'[p] \in Running ]_vars

\* C11: a source that fails to open takes the frame loop from OPENING
\* straight to STOPPED with FrameCounter, TrailHistory, HazardCollection and
\* BasePosition unchanged; STOPPED is entered from OPENING only and is never
\* left, and a frame is emitted from the end of an iteration only, so that
\* loop emits no frame.
C11_OpenFailureStops ==
    [][ \A p \in Loops :
          /\ Open(p, FALSE) => (pc'[p] = "stopped" /\ UNCHANGED globalVars)
          /\ pc'[p] = "stopped" => pc[p] \in {"opening", "stopped"}
          /\ pc[p] = "stopped" => pc'[p] = "stopped"
          /\ Emit(p) => pc[p] = "emit" ]_vars

\* The source of one stream consumer has failed to open while another
\* consumer's loop has processed a frame.
C11_Witness ==
    \E p \in Loops :
        /\ pc[p] = "stopped"
        /\ \E q \in Loops \ {p} : pc[q] = "emit"
        /\ frame_index > 0

\* The source of loop p has opened and its next read reports end-of-stream.
AtEof(p) == pc[p] = "read" /\ cap_pos[p] = NumFrames

\* C12: once the source has opened the loop never leaves RUNNING; after an
\* end-of-stream the capture is back at the first frame and, while the run
\* still has a frame to decode, a frame is decoded and processed again, and
\* a processed frame is emitted.
C12_LoopRestartsAfterEof ==
    /\ [][ \A p \in Loops : pc[p] \in Running => pc'[p] \in Running ]_vars
    /\ \A p \in Loops :
         (AtEof(p) /\ load.frames > 0) ~> (pc[p] = "emit" \/ load.frames = 0)
    /\ \A p \in Loops : (pc[p] = "emit") ~> (pc[p] = "read")

\* The only frame loop has been through the whole source, has met
\* end-of-stream and processed the first frame again.
C12_Witness ==
    \E p \in Loops :
        /\ pc[p] = "emit"
        /\ load.decoded > NumFrames
        /\ cap_pos[p] = 1
        /\ \A q \in Loops \ {p} : pc[q] = "absent"

\* C13: a decode attempt is never followed by another decode attempt with no
\* suspension point in between.  The loop is back at the read only through
\* time.sleep and yield (Emit), so this says that every read leaves the loop
\* on its way to them, the read that reports end-of-stream included.
C13_NoBusySpin ==
    [][ \A p \in Loops : Read(p) => pc'[p] # "read" ]_vars

\* C14: a trail query served while TrailHistory is empty (from the moment it
\* is received to the moment it answers) returns an empty coordinate
\* sequence, and a hazard query received while HazardCollection is empty
\* returns an empty collection at once; no step of a query fails.
C14_QueriesOnEmptyState ==
    [][ /\ (TrailQueryEncode /\ tq_pc' = "idle" /\ tq_seen = {<<>>})
              => trail_resp' = <<>>
        /\ (HazardQueryCheck /\ landslide_polygons = <<>>)
              => (hq_pc' = "idle" /\ haz_resp' = <<>>) ]_vars

\* A ring of at least 4 points whose first point equals its last
ClosedRing(poly) == Len(poly) >= 4 /\ poly[1] = poly[Len(poly)]

\* C15: every polygon mask_to_polygons returns, and so every polygon held in
\* HazardCollection, is a closed ring of at least 4 points, whatever the
\* vertex sequence of the contour, closed already or not.
C15_PolygonsAreClosedRings ==
    /\ \A i \in DOMAIN landslide_polygons : ClosedRing(landslide_polygons[i])
    /\ fn_in.op = "polygons" => \A i \in DOMAIN fn_out : ClosedRing(fn_out[i])

\* mask_to_polygons has kept a contour whose first and last vertex were equal
\* already, with no vertex added.
C15_Witness ==
    /\ fn_in.op = "polygons"
    /\ Len(fn_in.contours) = 1
    /\ fn_in.contours[1].pts[1] = fn_in.contours[1].pts[Len(fn_in.contours[1].pts)]
    /\ Len(fn_out) = 1
    /\ Len(fn_out[1]) = Len(fn_in.contours[1].pts)
    /\ landslide_polygons = fn_out

\* The number of contours of cs that pass an area test and give a ring of
\* more than 3 points
KeptContours(cs, passes(_)) ==
    Cardinality({ i \in DOMAIN cs :
                    /\ passes(cs[i].area)
                    /\ Len(GeoRing(cs[i], FrameW, FrameH, 0, 0)) > 3 })

AboveThreshold(area) == area > MinArea
AtLeastThreshold(area) == area >= MinArea

\* C16: mask_to_polygons gives a polygon only for a contour whose area is
\* strictly greater than the threshold; a contour of the threshold area or
\* less gives none.
C16_AreaAboveThreshold ==
    fn_in.op = "polygons" => Len(fn_out) = KeptContours(fn_in.contours, AboveThreshold)

\* C16 as amended: mask_to_polygons gives a polygon only for a contour whose
\* area is at least the threshold; a contour of area below the threshold
\* gives none, and one of exactly the threshold area is kept.
C16_AreaAtLeastThreshold ==
    fn_in.op = "polygons" => Len(fn_out) = KeptContours(fn_in.contours, AtLeastThreshold)

\* A contour of exactly the threshold area has given a polygon.
C16_Witness ==
    /\ fn_in.op = "polygons"
    /\ Len(fn_in.contours) = 1
    /\ fn_in.contours[1].area = MinArea
    /\ Len(fn_out) = 1

\* C17: whatever the trail model returned for a frame (no mask, masks with no
\* pixel on, one instance, several), the frame calls append once when the
\* OR of the masks has a pixel on and not at all otherwise, with the one
\* point of the combined mask; the call adds exactly that point to
\* TrailHistory (to the list the frame loaded, should a reset have replaced
\* it meanwhile), and no step of the frame before or after the
\* append-and-truncate adds a point.
C17_OnePointPerFrame ==
    [][ \A p \in Loops :
          /\ \A res \in TrailResults :
               (TrailDetect(p, res) /\ ~res.raises) =>
                   /\ UNCHANGED << trail_points, heap >>
                   /\ pc'[p] = "trail_append" <=> CombineMasks(res.masks) # {}
                   /\ pc'[p] = "trail_append" =>
                        point'[p] = TrailPoint(CombineMasks(res.masks),
                                               gps_lat[p], gps_lon[p])
          /\ TrailAppend(p) =>
               /\ pc'[p] = "trunc_slice"
               /\ list_ref[p] = trail_points => Trail' = Append(Trail, point[p])
          /\ pc'[p] = "trail_append" => pc[p] \in {"trail_detect", "trail_append"}
          /\ (\/ Read(p) \/ IncLoad(p) \/ IncStore(p) \/ GpsArg(p) \/ GpsLat(p)
              \/ GpsLon(p) \/ TruncSlice(p) \/ Emit(p)
              \/ \E res \in LandslideResults : LandslideDetect(p, res))
               => UNCHANGED << trail_points, heap >> ]_vars

\* A frame with two trail instances (or one covering both) has appended its
\* one point, the first of TrailHistory.
C17_Witness ==
    \E p \in Loops :
        /\ pc[p] = "trunc_slice"
        /\ point[p] = TrailPoint(TMaskA \cup TMaskB, gps_lat[p], gps_lon[p])
        /\ Trail = << point[p] >>
        /\ hist = Trail

\* C18: for every frame size, even or odd, the trail point of a mask whose
\* one blob is centred in the frame is the reference position itself: the
\* pixel offset of its centroid is (0, 0).
C18_CentredBlobGivesReference ==
    fn_in.op = "point" => fn_out = << fn_in.lon, fn_in.lat >>

\* The base positions that were set together: the initial one and the one of
\* a reset request
BasePairs == { << InitBaseLat, InitBaseLon >>, << ResetLat, ResetLon >> }

\* C19: the latitude and the longitude simulate_gps adds the drift of a frame
\* to are those of one base position: the initial one, or those of one reset.
C19_BaseNeverTorn ==
    [][ \A p \in Loops :
          GpsLon(p) =>
              << gps_lat'[p] - frame_idx[p] * GpsDrift,
                 gps_lon'[p] - frame_idx[p] * GpsDrift >> \in BasePairs ]_vars

\* Every frame loop is between two frames, or never ran.
LoopsAtRest == \A p \in Loops : pc[p] \in {"absent", "stopped", "read"}

Min(a, b) == IF a <= b THEN a ELSE b

\* C20: with no reset, once every append-and-truncate begun has completed,
\* TrailHistory holds min(points appended, TrailCap) points and every one of
\* the last TrailCap points appended is among them.
C20_NoAppendLost ==
    (NoResetYet /\ LoopsAtRest) =>
        /\ Len(Trail) = Min(Len(hist), TrailCap)
        /\ \A i \in DOMAIN hist :
             i > Len(hist) - TrailCap => \E j \in DOMAIN Trail : Trail[j] = hist[i]

====
